---- MODULE Spec2Model ----
(***************************************************************************)
(* Model of the Open Electricity proxy (src/app.py) and of the Ausgrid     *)
(* EA025 tariff function (src/network_charge.py).                          *)
(*                                                                         *)
(* JSON documents are tagged records [t, v]:                               *)
(*   null  [t |-> "null", v |-> 0]        bool  [t |-> "bool", v |-> b]    *)
(*   num   [t |-> "num",  v |-> n]        str   [t |-> "str",  v |-> cs]   *)
(*   list  [t |-> "list", v |-> <<x1, ..>>]                                *)
(*   dict  [t |-> "dict", v |-> << <<k1, x1>>, .. >>]  (document order)    *)
(* A string value is the sequence of its characters, so that str.upper()   *)
(* is computed character by character. Dict keys are TLA+ strings.         *)
(***************************************************************************)
EXTENDS Integers, Sequences, FiniteSets, TLC

\* ------------------------------------------------------------------ bounds
NumRequests == 2
MaxVal == 1
MaxRows == 4
MaxResults == 2
MaxSeries == 2

\* ------------------------------------------------------- program constants
MinPointsOffByOne == 3 - 1
MIN_POINTS == 3
NETWORK_REGION == <<"N", "S", "W", "1">>
METRIC == <<"p", "r", "i", "c", "e">>
INTERVAL == <<"5", "m">>
UNITS == <<"$", " ", "/", " ", "M", "W", "h">>

\* ------------------------------------------------------------ JSON values
JNull == [t |-> "null", v |-> 0]
JBool(b) == [t |-> "bool", v |-> b]
JNum(n) == [t |-> "num", v |-> n]
JStr(cs) == [t |-> "str", v |-> cs]
JList(xs) == [t |-> "list", v |-> xs]
JDict(kvs) == [t |-> "dict", v |-> kvs]

\* isinstance(x, dict), isinstance(x, list), isinstance(x, (int, float)):
\* bool is a subclass of int, so True and False pass the numeric test.
IsDict(x) == x.t = "dict"
IsList(x) == x.t = "list"
IsNumber(x) == x.t \in {"num", "bool"}

\* float(x) of a value that passed IsNumber
Float(x) == IF x.t = "bool" THEN (IF x.v THEN 1 ELSE 0) ELSE x.v

\* Python truthiness of a JSON value
Truthy(x) ==
    CASE x.t = "null" -> FALSE
      [] x.t = "bool" -> x.v
      [] x.t = "num" -> x.v # 0
      [] OTHER -> Len(x.v) > 0

\* a or b
Or(a, b) == IF Truthy(a) THEN a ELSE b

\* equality of two JSON values (the t test keeps unlike values apart)
JEq(a, b) == a.t = b.t /\ a.v = b.v

\* d.get(k) on a dict: the value under k, None when k is absent
Get(d, k) ==
    IF \E i \in 1..Len(d.v) : d.v[i][1] = k
    THEN d.v[CHOOSE i \in 1..Len(d.v) : d.v[i][1] = k][2]
    ELSE JNull

\* str.upper(), character by character
LowerChars == <<"a", "b", "c", "d", "e", "f", "g", "h", "i", "j", "k", "l", "m",
                "n", "o", "p", "q", "r", "s", "t", "u", "v", "w", "x", "y", "z">>
UpperChars == <<"A", "B", "C", "D", "E", "F", "G", "H", "I", "J", "K", "L", "M",
                "N", "O", "P", "Q", "R", "S", "T", "U", "V", "W", "X", "Y", "Z">>
UpperChar(c) ==
    IF \E i \in 1..Len(LowerChars) : LowerChars[i] = c
    THEN UpperChars[CHOOSE i \in 1..Len(LowerChars) : LowerChars[i] = c]
    ELSE c
Upper(cs) == [i \in 1..Len(cs) |-> UpperChar(cs[i])]

\* str(x) for the values a region tag takes here: strings, numbers, booleans
DigitChars == <<"0", "1", "2", "3", "4", "5", "6", "7", "8", "9">>
RECURSIVE NatStr(_)
NatStr(n) == IF n < 10 THEN <<DigitChars[n + 1]>>
             ELSE NatStr(n \div 10) \o <<DigitChars[(n % 10) + 1]>>
PyStr(x) ==
    CASE x.t = "str" -> x.v
      [] x.t = "num" -> IF x.v < 0 THEN <<"-">> \o NatStr(-x.v) ELSE NatStr(x.v)
      [] x.t = "bool" -> IF x.v THEN <<"T", "r", "u", "e">> ELSE <<"F", "a", "l", "s", "e">>
      [] x.t = "null" -> <<"N", "o", "n", "e">>

\* ------------------------------------------------ _extract_prices (app.py)
\* One row of a result: the values it appends to numeric_values.
ExtractRow(row) ==
    IF IsList(row) /\ Len(row.v) >= 2 /\ IsNumber(row.v[2])
    THEN <<Float(row.v[2])>>
    ELSE IF IsDict(row)
    THEN LET val == Or(Or(Get(row, "value"), Get(row, "price")), Get(row, "v"))
         IN IF IsNumber(val) THEN <<Float(val)>> ELSE <<>>
    ELSE IF IsNumber(row) THEN <<Float(row)>>
    ELSE <<>>

RECURSIVE ExtractRows(_)
ExtractRows(rows) ==
    IF rows = <<>> THEN <<>>
    ELSE ExtractRow(Head(rows)) \o ExtractRows(Tail(rows))

\* region = cols.get("region") or cols.get("network_region") or cols.get("code")
RegionOf(cols) ==
    Or(Or(Get(cols, "region"), Get(cols, "network_region")), Get(cols, "code"))

\* if region and str(region).upper() != NETWORK_REGION: continue
RegionSkipsCaseSensitive(region) == Truthy(region) /\ PyStr(region) # NETWORK_REGION
RegionSkips(region) == Truthy(region) /\ Upper(PyStr(region)) # NETWORK_REGION

\* One result of a series: [raised, values]. cols.get on a truthy value that
\* is no dict raises AttributeError.
ExtractResult(result) ==
    IF ~IsDict(result) THEN [raised |-> "none", values |-> <<>>]
    ELSE LET cols == Or(Get(result, "columns"), JDict(<<>>))
         IN IF ~IsDict(cols) THEN [raised |-> "AttributeError", values |-> <<>>]
            ELSE IF RegionSkips(RegionOf(cols)) THEN [raised |-> "none", values |-> <<>>]
            ELSE LET rows == Or(Get(result, "data"), JList(<<>>))
                 IN IF ~IsList(rows) THEN [raised |-> "none", values |-> <<>>]
                    ELSE [raised |-> "none", values |-> ExtractRows(rows.v)]

\* for result in results: the first exception ends the scan
RECURSIVE ExtractResults(_)
ExtractResults(results) ==
    IF results = <<>> THEN [raised |-> "none", values |-> <<>>]
    ELSE LET first == ExtractResult(Head(results))
         IN IF first.raised # "none" THEN first
            ELSE LET rest == ExtractResults(Tail(results))
                 IN [raised |-> rest.raised, values |-> first.values \o rest.values]

\* One series: skipped unless it is a dict of metric "price" with a list of results
ExtractSeries(series) ==
    IF ~IsDict(series) THEN [raised |-> "none", values |-> <<>>]
    ELSE IF ~JEq(Get(series, "metric"), JStr(METRIC)) THEN [raised |-> "none", values |-> <<>>]
    ELSE LET results == Get(series, "results")
         IN IF ~IsList(results) THEN [raised |-> "none", values |-> <<>>]
            ELSE ExtractResults(results.v)

RECURSIVE ExtractSeriesList(_)
ExtractSeriesList(series_list) ==
    IF series_list = <<>> THEN [raised |-> "none", values |-> <<>>]
    ELSE LET first == ExtractSeries(Head(series_list))
         IN IF first.raised # "none" THEN first
            ELSE LET rest == ExtractSeriesList(Tail(series_list))
                 IN [raised |-> rest.raised, values |-> first.values \o rest.values]

\* _extract_prices(payload): [raised, values]; values is meaningful when
\* raised = "none".
ExtractPrices(payload) ==
    LET data == IF IsDict(payload) THEN Get(payload, "data") ELSE JList(<<>>)
        series_list == IF IsList(data) THEN data.v ELSE <<>>
    IN ExtractSeriesList(series_list)

\* ------------------------------------------- calculate_local_price (tariff)
\* Rates in units of 0.0001: 32.1695 c/kWh is 321695, and x 10 gives $/MWh.
PEAK_CHARGE == 321695
OFFPEAK_CHARGE == 56688
TO_MWH == 10

CalculateLocalPriceLateStart(month, hour) ==
    IF month \in {11, 12, 1, 2, 3} \/ month \in {6, 7, 8}
    THEN IF hour > 15 /\ hour < 21
         THEN JNum(PEAK_CHARGE * TO_MWH)
         ELSE JNum(OFFPEAK_CHARGE * TO_MWH)
    ELSE JNull

\* The function's return value; a month outside both lists reaches the end of
\* the function body, which returns None.
CalculateLocalPrice(month, hour) ==
    IF month \in {11, 12, 1, 2, 3} \/ month \in {6, 7, 8}
    THEN IF hour >= 15 /\ hour < 21
         THEN JNum(PEAK_CHARGE * TO_MWH)
         ELSE JNum(OFFPEAK_CHARGE * TO_MWH)
    ELSE JNull

\* ------------------------------------------------------ upstream documents
Absent == [t |-> "absent", v |-> 0]
Ts == JStr(<<"t">>)
Junk == JStr(<<"x">>)

\* a dict literal; keys whose value is Absent are left out
MkDict(kvs) == JDict(SelectSeq(kvs, LAMBDA p : p[2].t # "absent"))

SeqsUpTo(S, n) == UNION {[1..k -> S] : k \in 0..n}

Nums == {JNum(n) : n \in 0..MaxVal}
FieldVals == Nums \cup {JNull, Junk, JBool(TRUE)}

\* rows of every accepted shape, and rows of none
PairRows == {JList(<<Ts, x>>) : x \in FieldVals} \cup {JList(<<Ts>>), JList(<<Ts, JNum(MaxVal), Junk>>)}
DictRows == {MkDict(<<<<"value", a>>, <<"price", b>>, <<"v", c>>>>) :
                a \in FieldVals \cup {Absent}, b \in FieldVals \cup {Absent},
                c \in FieldVals \cup {Absent}}
BareRows == FieldVals
RowShapes == PairRows \cup DictRows \cup BareRows
SimpleRows == {JList(<<Ts, JNum(0)>>), JNum(1), MkDict(<<<<"price", JNum(1)>>>>), Junk}

\* region tags
RegionVals == {JNull, JStr(<<>>), JStr(<<"N", "S", "W", "1">>), JStr(<<"n", "s", "w", "1">>),
               JStr(<<"N", "s", "w", "1">>), JStr(<<"V", "I", "C", "1">>),
               JStr(<<"v", "i", "c", "1">>), JStr(<<"N", "S", "W">>), JNum(1)}
ColDicts == {MkDict(<<<<"region", a>>, <<"network_region", b>>, <<"code", c>>>>) :
                a \in RegionVals \cup {Absent}, b \in RegionVals \cup {Absent},
                c \in RegionVals \cup {Absent}}
ColSet == ColDicts \cup {Absent, JNull, Junk, JList(<<Junk>>)}
SmallCols == {Absent,
              MkDict(<<<<"region", JStr(<<"n", "s", "w", "1">>)>>>>),
              MkDict(<<<<"region", JStr(<<"V", "I", "C", "1">>)>>>>),
              MkDict(<<<<"code", JStr(<<"v", "i", "c", "1">>)>>>>)}

MkResult(cols, data) == MkDict(<<<<"columns", cols>>, <<"data", data>>>>)
MkSeries(metric, results) == MkDict(<<<<"metric", metric>>, <<"results", results>>>>)
MkPayload(data) == MkDict(<<<<"data", data>>>>)
PriceDoc(results) == MkPayload(JList(<<MkSeries(JStr(METRIC), JList(results))>>))

GoodRows == JList(<<JList(<<Ts, JNum(1)>>), JNum(1)>>)
OneRow == JList(<<JList(<<Ts, JNum(0)>>)>>)
GoodResult == MkResult(Absent, GoodRows)

\* documents that vary the rows of one untagged result
RowDocs == {PriceDoc(<<MkResult(Absent, JList(<<row>>))>>) : row \in RowShapes}
RowSeqDocs == {PriceDoc(<<MkResult(Absent, JList(rows))>>) : rows \in SeqsUpTo(SimpleRows, MaxRows)}

\* documents that vary the region tag of the results
RegionDocs == {PriceDoc(<<MkResult(cols, GoodRows)>>) : cols \in ColSet}
SmallResults == {MkResult(cols, data) : cols \in SmallCols, data \in {GoodRows, OneRow}}
RegionSeqDocs == {PriceDoc(results) : results \in SeqsUpTo(SmallResults, MaxResults)}

\* documents that vary the structure around the rows
SeriesSet == {JNull, Junk,
              MkSeries(Absent, JList(<<GoodResult>>)),
              MkSeries(JStr(<<"d", "e", "m", "a", "n", "d">>), JList(<<GoodResult>>)),
              MkSeries(JStr(<<"P", "r", "i", "c", "e">>), JList(<<GoodResult>>)),
              MkSeries(JStr(METRIC), Absent),
              MkSeries(JStr(METRIC), MkDict(<<<<"0", GoodResult>>>>)),
              MkSeries(JStr(METRIC), JList(<<JNull, GoodResult>>)),
              MkSeries(JStr(METRIC), JList(<<MkResult(Absent, JNull)>>)),
              MkSeries(JStr(METRIC), JList(<<MkResult(Absent, JNum(0))>>)),
              MkSeries(JStr(METRIC), JList(<<MkResult(Absent, Junk)>>)),
              MkSeries(JStr(METRIC), JList(<<MkResult(Absent, MkDict(<<<<"0", JNum(1)>>>>))>>)),
              MkSeries(JStr(METRIC), JList(<<GoodResult>>)),
              MkSeries(JStr(METRIC), JList(<<MkResult(Junk, GoodRows)>>))}
StructDocs == {MkPayload(JList(ss)) : ss \in SeqsUpTo(SeriesSet, MaxSeries)}
                \cup {JNull, JList(<<GoodResult>>), JNum(1), Junk, MkPayload(Absent),
                      MkPayload(JNull), MkPayload(GoodResult), MkPayload(Junk)}

Payloads == RowDocs \cup RowSeqDocs \cup RegionDocs \cup RegionSeqDocs \cup StructDocs

\* ------------------------------------------------------ upstream responses
\* A response body: its text either parses as JSON (to doc) or does not.
JsonBody(doc) == [parses |-> TRUE, doc |-> doc]
NotJsonBody == [parses |-> FALSE, doc |-> JStr(<<"<", "h", "t", "m", "l", ">">>)]
EmptyBody == [parses |-> FALSE, doc |-> JStr(<<>>)]
NoBody == [parses |-> FALSE, doc |-> Absent]

Statuses == {200, 204, 301, 400, 404, 500, 503}
ErrorStatuses == {s \in Statuses : s >= 400}

HttpResponse(status, body) == [error |-> FALSE, status |-> status, body |-> body]
TransportError == [error |-> TRUE, status |-> 0, body |-> NoBody]
NoResponse == [error |-> FALSE, status |-> 0, body |-> NoBody]

FourRows == JList(<<JNum(0), JList(<<Ts, JNum(1)>>), JNum(1), JNum(0)>>)
SmallBodies == {NotJsonBody,
                JsonBody(PriceDoc(<<MkResult(Absent, FourRows)>>)),
                JsonBody(PriceDoc(<<GoodResult>>)),
                JsonBody(PriceDoc(<<MkResult(Junk, GoodRows)>>))}
SmallResponses == {HttpResponse(s, b) : s \in {200, 301, 404, 503}, b \in SmallBodies}
AllResponses == {HttpResponse(s, JsonBody(p)) : s \in Statuses \ ErrorStatuses, p \in Payloads}
                  \cup {HttpResponse(s, b) : s \in Statuses, b \in SmallBodies \cup {EmptyBody}}

\* ---------------------------------------------------------------- state
Requests == 1..NumRequests

VARIABLES
    env,        \* the process environment: the two credential variables
    pc,         \* pc[r]: "idle", "awaiting" (suspended in client.get) or "done"
    calls,      \* calls[r]: outbound calls to the upstream API started for r
    response,   \* response[r]: what client.get produced for r
    outcome,    \* outcome[r]: the HTTP outcome of request r
    dt,         \* the timestamp handed to calculate_local_price
    price       \* what calculate_local_price returned for dt

vars == <<env, pc, calls, response, outcome, dt, price>>

\* os.getenv: None for an unset variable, else its string
EnvVals == {JNull, JStr(<<>>), JStr(<<"t", "o", "k">>)}
Envs == [OPENELECTRICITY_API_TOKEN : EnvVals, OPEN_ELECTRICITY_API_KEY : EnvVals]

\* token = os.getenv(...) or os.getenv(...)
Token(e) == Or(e.OPENELECTRICITY_API_TOKEN, e.OPEN_ELECTRICITY_API_KEY)

\* ------------------------------------------------------------- outcomes
NoOutcome == [status |-> 0, raised |-> "pending", detail |-> "", body |-> NoBody,
              content |-> <<>>]
\* raise HTTPException(status_code, detail)
HttpException(status, detail, body) ==
    [status |-> status, raised |-> "HTTPException", detail |-> detail, body |-> body,
     content |-> <<>>]
\* an exception no handler catches: the framework answers 500
Unhandled(exc) ==
    [status |-> 500, raised |-> exc, detail |-> "Internal Server Error", body |-> NoBody,
     content |-> <<>>]
Success(content) ==
    [status |-> 200, raised |-> "none", detail |-> "", body |-> NoBody, content |-> content]

\* sum(xs)
RECURSIVE Sum(_)
Sum(xs) == IF xs = <<>> THEN 0 ELSE Head(xs) + Sum(Tail(xs))

\* values[-n:]
FirstN(values, n) == SubSeq(values, 1, IF Len(values) > n THEN n ELSE Len(values))
LastN(values, n) ==
    LET start == IF Len(values) > n THEN Len(values) - n ELSE 0
    IN SubSeq(values, start + 1, Len(values))

\* if response.status_code >= 400
UpstreamErrorFrom500(status) == status >= 500
IsUpstreamError(status) == status >= 400

\* The handler after client.get returned a response (lines 115-133).
\* average_price is the quotient sum / len, kept as the pair [num, den].
HandleResponse(resp) ==
    IF IsUpstreamError(resp.status)
    THEN HttpException(resp.status, "upstream body", resp.body)
    ELSE IF ~resp.body.parses THEN Unhandled("JSONDecodeError")
    ELSE LET ex == ExtractPrices(resp.body.doc)
         IN IF ex.raised # "none" THEN Unhandled(ex.raised)
            ELSE IF Len(ex.values) < MIN_POINTS
            THEN HttpException(502, "Upstream response did not contain enough price points",
                               NoBody)
            ELSE LET last_three == LastN(ex.values, MIN_POINTS)
                 IN Success([network_region |-> NETWORK_REGION,
                             interval |-> INTERVAL,
                             points_used |-> Len(last_three),
                             price_points |-> last_three,
                             average_price |-> [num |-> Sum(last_three),
                                                den |-> Len(last_three)],
                             units |-> UNITS])

\* -------------------------------------------------------------- actions
StartCatchesHttpException(r) ==
    /\ pc[r] = "idle"
    /\ IF ~Truthy(Token(env))
       THEN /\ outcome' = [outcome EXCEPT ![r] = HttpException(502, "Upstream request failed", NoBody)]
            /\ pc' = [pc EXCEPT ![r] = "done"]
            /\ calls' = calls
       ELSE /\ calls' = [calls EXCEPT ![r] = @ + 1]
            /\ pc' = [pc EXCEPT ![r] = "awaiting"]
            /\ outcome' = outcome
    /\ UNCHANGED <<env, response, dt, price>>

\* The handler up to its await: the arguments of client.get are evaluated
\* first, so _get_auth_header raises before any call is started; its
\* HTTPException is no httpx.HTTPError and passes the except clause.
Start(r) ==
    /\ pc[r] = "idle"
    /\ IF ~Truthy(Token(env))
       THEN /\ outcome' = [outcome EXCEPT ![r] =
                   HttpException(500, "OPENELECTRICITY_API_TOKEN or OPEN_ELECTRICITY_API_KEY is not set",
                                 NoBody)]
            /\ pc' = [pc EXCEPT ![r] = "done"]
            /\ calls' = calls
       ELSE /\ calls' = [calls EXCEPT ![r] = @ + 1]
            /\ pc' = [pc EXCEPT ![r] = "awaiting"]
            /\ outcome' = outcome
    /\ UNCHANGED <<env, response, dt, price>>

TransportFailRetries(r) ==
    /\ pc[r] = "awaiting"
    /\ response' = [response EXCEPT ![r] = TransportError]
    /\ pc' = [pc EXCEPT ![r] = "idle"]
    /\ UNCHANGED <<env, calls, outcome, dt, price>>

\* client.get raises an httpx.HTTPError (connection failure, timeout)
TransportFail(r) ==
    /\ pc[r] = "awaiting"
    /\ response' = [response EXCEPT ![r] = TransportError]
    /\ outcome' = [outcome EXCEPT ![r] = HttpException(502, "Upstream request failed", NoBody)]
    /\ pc' = [pc EXCEPT ![r] = "done"]
    /\ UNCHANGED <<env, calls, dt, price>>

\* client.get returns one of the upstream's responses and the handler runs
\* to its end
Respond(r, responses) ==
    /\ pc[r] = "awaiting"
    /\ \E resp \in responses :
        /\ response' = [response EXCEPT ![r] = resp]
        /\ outcome' = [outcome EXCEPT ![r] = HandleResponse(resp)]
    /\ pc' = [pc EXCEPT ![r] = "done"]
    /\ UNCHANGED <<env, calls, dt, price>>

\* calculate_local_price(dt)
Calculate ==
    /\ price = Absent
    /\ price' = CalculateLocalPrice(dt.month, dt.hour)
    /\ UNCHANGED <<env, pc, calls, response, outcome, dt>>

\* ------------------------------------------------------- specifications
ServiceInit(envs) ==
    /\ env \in envs
    /\ pc = [r \in Requests |-> "idle"]
    /\ calls = [r \in Requests |-> 0]
    /\ response = [r \in Requests |-> NoResponse]
    /\ outcome = [r \in Requests |-> NoOutcome]

NoTimestamp == [month |-> 1, hour |-> 0, minute |-> 0]

\* Concurrent requests against the upstream API
Init ==
    /\ ServiceInit(Envs)
    /\ dt = NoTimestamp
    /\ price = Absent

Next ==
    \E r \in Requests :
        \/ Start(r)
        \/ TransportFail(r)
        \/ Respond(r, SmallResponses)

Spec == Init /\ [][Next]_vars

\* One request over every upstream document of the bounded families
PayloadEnvs == {e \in Envs : e.OPENELECTRICITY_API_TOKEN # JNull /\ e.OPEN_ELECTRICITY_API_KEY = JNull}

InitPayload ==
    /\ ServiceInit(PayloadEnvs)
    /\ dt = NoTimestamp
    /\ price = Absent

NextPayload ==
    \/ Start(1)
    \/ TransportFail(1)
    \/ Respond(1, AllResponses)

SpecPayload == InitPayload /\ [][NextPayload]_vars

\* calculate_local_price over every month, hour and minute
Timestamps == [month : 1..12, hour : 0..23, minute : {0, 59}]

InitTariff ==
    /\ ServiceInit({[OPENELECTRICITY_API_TOKEN |-> JNull, OPEN_ELECTRICITY_API_KEY |-> JNull]})
    /\ dt \in Timestamps
    /\ price = Absent

NextTariff == Calculate

SpecTariff == InitTariff /\ [][NextTariff]_vars

\* ------------------------------------------------------------ properties
Finished(r) == pc[r] = "done"
GotResponse(r) == Finished(r) /\ ~response[r].error /\ response[r].status # 0
Is2xx(r) == GotResponse(r) /\ response[r].status \in 200..299
\* request r received a 2xx body that parsed, and _extract_prices returned
Extracted(r) ==
    /\ Is2xx(r)
    /\ response[r].body.parses
    /\ ExtractPrices(response[r].body.doc).raised = "none"
Collected(r) == ExtractPrices(response[r].body.doc).values

\* C1: whenever _extract_prices collects 3 or more values from an upstream
\* success payload, the request ends 200 with price_points the last 3 collected
\* values in document order, points_used 3 and average_price their sum over 3.
C1_LastThreeAndMean ==
    \A r \in Requests :
        (Extracted(r) /\ Len(Collected(r)) >= 3) =>
            LET vs == Collected(r)
                n == Len(vs)
                c == outcome[r].content
            IN /\ outcome[r].status = 200
               /\ outcome[r].raised = "none"
               /\ c.price_points = <<vs[n - 2], vs[n - 1], vs[n]>>
               /\ c.points_used = 3
               /\ c.average_price = [num |-> vs[n - 2] + vs[n - 1] + vs[n], den |-> 3]

C1_Witness ==
    \E r \in Requests :
        /\ Extracted(r)
        /\ Len(Collected(r)) = 4
        /\ Collected(r)[1] # Collected(r)[4]
        /\ outcome[r].status = 200
        /\ outcome[r].content.price_points = SubSeq(Collected(r), 2, 4)

\* C2: whenever an upstream success payload yields 0, 1 or 2 values, the
\* request ends with a 502 gateway error; and no 200 response ever carries an
\* average over fewer than 3 points.
C2_TooFewIsGatewayError ==
    \A r \in Requests :
        /\ (Extracted(r) /\ Len(Collected(r)) < 3) =>
               /\ outcome[r].status = 502
               /\ outcome[r].raised = "HTTPException"
        /\ (Finished(r) /\ outcome[r].status = 200) =>
               /\ outcome[r].content.points_used >= 3
               /\ outcome[r].content.average_price.den >= 3
               /\ Len(outcome[r].content.price_points) >= 3

C2_Witness ==
    \E r \in Requests :
        /\ Extracted(r)
        /\ Len(Collected(r)) = 2
        /\ outcome[r].status = 502

\* C3: when neither credential variable holds a non-empty value, no request
\* ever starts an outbound call or waits for one, and every finished request
\* ended with the 500 raised by the credential check, not with a 502.
NoCredential ==
    /\ env.OPENELECTRICITY_API_TOKEN \in {JNull, JStr(<<>>)}
    /\ env.OPEN_ELECTRICITY_API_KEY \in {JNull, JStr(<<>>)}

C3_NoCredentialNoCall ==
    NoCredential =>
        \A r \in Requests :
            /\ calls[r] = 0
            /\ pc[r] # "awaiting"
            /\ response[r] = NoResponse
            /\ Finished(r) => (outcome[r].status = 500 /\ outcome[r].raised = "HTTPException")

C3_Witness ==
    /\ NoCredential
    /\ env.OPENELECTRICITY_API_TOKEN = JStr(<<>>)
    /\ \A r \in Requests : Finished(r) /\ outcome[r].status = 500

\* C4: calculate_local_price returns a number for every timestamp, and the
\* off-peak rate 56.688 for every timestamp in April, May, September or October.
C4_TotalAndShoulderOffPeak ==
    price # Absent =>
        /\ price.t = "num"
        /\ dt.month \in {4, 5, 9, 10} => price = JNum(566880)

\* C5: in a summer or winter month calculate_local_price returns 321.695
\* exactly when 15 <= hour < 21 and 56.688 for every other hour.
C5_PeakWindow ==
    (price # Absent /\ dt.month \in {11, 12, 1, 2, 3, 6, 7, 8}) =>
        /\ dt.hour \in 15..20 => price = JNum(3216950)
        /\ dt.hour \notin 15..20 => price = JNum(566880)

C5_Witness ==
    /\ dt = [month |-> 7, hour |-> 15, minute |-> 0]
    /\ price = JNum(3216950)

\* C6: in a price series, the rows of a result are collected exactly when the
\* result carries no region tag or its tag is "NSW1" in any letter case.
\* The tag is the first non-empty value under region, network_region, code.
C6_Tags(result) ==
    LET c == Get(result, "columns")
    IN IF c.t # "dict" THEN <<>>
       ELSE SelectSeq(<<Get(c, "region"), Get(c, "network_region"), Get(c, "code")>>,
                      LAMBDA x : x.t # "null" /\ ~(x.t = "str" /\ Len(x.v) = 0))
C6_IsNSW1(x) ==
    /\ x.t = "str"
    /\ Len(x.v) = 4
    /\ x.v[1] \in {"N", "n"}
    /\ x.v[2] \in {"S", "s"}
    /\ x.v[3] \in {"W", "w"}
    /\ x.v[4] = "1"
C6_Included(result) == Len(C6_Tags(result)) = 0 \/ C6_IsNSW1(C6_Tags(result)[1])
RECURSIVE C6_Expected(_)
C6_Expected(results) ==
    IF results = <<>> THEN <<>>
    ELSE (IF C6_Included(Head(results)) THEN ExtractRows(Get(Head(results), "data").v) ELSE <<>>)
            \o C6_Expected(Tail(results))
RegionFamily == RegionDocs \cup RegionSeqDocs
ResultsOf(doc) == Get(Get(doc, "data").v[1], "results").v
C6_InFamily(r) ==
    /\ Extracted(r)
    /\ response[r].body.doc \in RegionFamily

C6_RegionFilter ==
    \A r \in Requests :
        C6_InFamily(r) => Collected(r) = C6_Expected(ResultsOf(response[r].body.doc))

C6_Witness ==
    \E r \in Requests :
        /\ C6_InFamily(r)
        /\ LET rs == ResultsOf(response[r].body.doc)
           IN /\ Len(rs) = 2
              /\ C6_Tags(rs[1]) = <<JStr(<<"V", "I", "C", "1">>)>>
              /\ C6_Tags(rs[2]) = <<JStr(<<"n", "s", "w", "1">>)>>
              /\ Collected(r) = ExtractRows(Get(rs[2], "data").v)
              /\ Collected(r) # <<>>

\* C7 as stated: for every upstream status that is not 2xx the request ends
\* with that status and the upstream body, and the body is never parsed.
C7_Non2xxForwarded ==
    \A r \in Requests :
        (GotResponse(r) /\ ~Is2xx(r)) =>
            /\ outcome[r].status = response[r].status
            /\ outcome[r].raised = "HTTPException"
            /\ outcome[r].body = response[r].body

\* C7 amended: for every upstream status of 400 or more the request ends with
\* that status and the upstream body, raised before the body is parsed.
C7_ErrorStatusForwarded ==
    \A r \in Requests :
        (GotResponse(r) /\ response[r].status >= 400) =>
            /\ outcome[r].status = response[r].status
            /\ outcome[r].raised = "HTTPException"
            /\ outcome[r].body = response[r].body

C7_Witness ==
    \E r \in Requests :
        /\ GotResponse(r)
        /\ response[r].status = 404
        /\ response[r].body = NotJsonBody
        /\ outcome[r].status = 404
        /\ outcome[r].body = NotJsonBody

\* C8: every upstream success response that does not end in a 200 (its body
\* is not JSON, is not of the expected structure, or is sparse) ends with a
\* 502 HTTPException and in no other error outcome.
C8_MalformedIsGatewayError ==
    \A r \in Requests :
        (Is2xx(r) /\ outcome[r].status # 200) =>
            /\ outcome[r].status = 502
            /\ outcome[r].raised = "HTTPException"

\* C9: a request starts at most one outbound call; a finished request has one
\* outcome, which never changes, and starts no further call; a step moves one
\* request only; and requests that received the same response ended alike.
C9_StateOk ==
    \A r \in Requests :
        /\ calls[r] <= 1
        /\ Finished(r) <=> outcome[r] # NoOutcome
        /\ Finished(r) => outcome[r].status \in {200, 500, 502} \cup {s \in Statuses : s >= 400}
        /\ \A q \in Requests :
               (Finished(r) /\ Finished(q) /\ response[r] = response[q]) => outcome[r] = outcome[q]
C9_StepOk ==
    \A r \in Requests :
        /\ Finished(r) => /\ pc'[r] = pc[r]
                          /\ outcome'[r] = outcome[r]
                          /\ calls'[r] = calls[r]
                          /\ response'[r] = response[r]
        /\ <<pc[r], outcome[r], calls[r], response[r]>> # <<pc'[r], outcome'[r], calls'[r], response'[r]>> =>
               \A q \in Requests \ {r} :
                   <<pc[q], outcome[q], calls[q], response[q]>> = <<pc'[q], outcome'[q], calls'[q], response'[q]>>
C9_OneCallOneOutcome == C9_StateOk /\ [][C9_StepOk /\ C9_StateOk']_vars

C9_Witness ==
    \E r, q \in Requests :
        /\ r # q
        /\ Finished(r) /\ Finished(q)
        /\ response[r] = TransportError /\ outcome[r].status = 502
        /\ outcome[q].status = 200
        /\ calls[r] = 1 /\ calls[q] = 1

\* C10: in an untagged result of a price series, every row of an accepted
\* shape contributes its own value in document order, zero included: an array
\* pair its second element, an object the first of value, price, v it carries,
\* a bare number itself. Stated for rows whose values are numbers only.
C10_Plain(row) ==
    CASE row.t = "num" -> TRUE
      [] row.t = "list" -> Len(row.v) = 2 /\ row.v[2].t = "num"
      [] row.t = "dict" -> Len(row.v) > 0 /\ \A i \in 1..Len(row.v) : row.v[i][2].t = "num"
      [] OTHER -> FALSE
C10_Value(row) ==
    CASE row.t = "num" -> row.v
      [] row.t = "list" -> row.v[2].v
      [] row.t = "dict" -> row.v[1][2].v
RowFamily == RowDocs \cup RowSeqDocs
RowsOf(doc) == Get(ResultsOf(doc)[1], "data").v
C10_EveryValueCollected ==
    \A r \in Requests :
        (/\ Extracted(r)
         /\ response[r].body.doc \in RowFamily
         /\ \A i \in 1..Len(RowsOf(response[r].body.doc)) : C10_Plain(RowsOf(response[r].body.doc)[i])) =>
            LET rows == RowsOf(response[r].body.doc)
            IN Collected(r) = [i \in 1..Len(rows) |-> C10_Value(rows[i])]

====
